---- MODULE Spec2Model ----
(***************************************************************************)
(* Leak-event health-state processor of the dsx-exchange-consumer crate:   *)
(* HealthUpdater (health_updater.rs) with its two moka caches, the message *)
(* model (messages.rs) and the downstream RackHealthReportSink             *)
(* (api_client.rs).                                                        *)
(*                                                                         *)
(* Strings that the code takes apart (topics, prefixes, paths) are         *)
(* sequences of characters.  Option<T> is a sequence of length <= 1:       *)
(* None is << >>, Some(x) is << x >>.  Time is counted in whole units; a   *)
(* cache entry carries the time elapsed since it was last written.         *)
(***************************************************************************)
EXTENDS Naturals, Sequences, FiniteSets

VARIABLES
    metadata_cache,     \* HealthUpdater.metadata_cache: path -> [value, age]
    value_state_cache,  \* HealthUpdater.value_state_cache: path -> [value, age]
    metrics,            \* ConsumerMetrics counters used by the updater
    pc,                 \* position of each task inside handle_value_message
    cur,                \* locals of each task's handle_value_message call
    log,                \* value messages handled, with what each one did
    last_metadata,      \* per extracted path, the last metadata message handled
    rx,                 \* messages queued in the channel that run() receives from
    closed,             \* every Sender of the channel has been dropped
    sent,               \* messages sent on the channel, in the order they were sent
    taken,              \* messages run() has received, in the order it received them
    pure_call           \* a free function of the crate applied on its own:
                        \* its arguments and, once it has returned, its result

\* the inbound channel and its history
inbound == << rx, closed, sent, taken >>

vars == << metadata_cache, value_state_cache, metrics, pc, cur, log, last_metadata,
           rx, closed, sent, taken, pure_call >>

----------------------------------------------------------------------------
(* Bounds of the model.                                                    *)

\* value messages handled in one behaviour of the one-task specification
MaxLog == 3

\* value messages handled in one behaviour of the concurrent specification
MaxConcurrent == 2

\* value messages handled in one behaviour of the two-rack specification
MaxRacks == 2

\* messages sent on the inbound channel in one behaviour of run()
MaxSent == 3

\* value messages handled in one behaviour of the specification in which the
\* metadata of a path is rewritten
MaxRewrite == 3
MaxShared == 3
MaxDrop == 3
MaxSupport == 2

\* messages sent on the inbound channel in one behaviour of the
\* specification of recurring value messages
MaxHeal == 4

\* length of the point paths that extract_point_path is applied to
MaxPathLen == 2

\* largest magnitude of the JSON numbers a FaultValue is decoded from
MaxNumber == 16

\* CacheConfig.metadata_ttl, in time units
MetadataTtl == 2

\* CacheConfig.value_state_ttl, in time units
ValueStateTtl == 2

----------------------------------------------------------------------------
(* Option<T>.                                                              *)

None == << >>

Some(x) == << x >>

IsSome(o) == o # None

Unwrap(o) == o[1]

----------------------------------------------------------------------------
(* Strings.                                                                *)

SuffixMetadata == << "/", "M", "e", "t", "a", "d", "a", "t", "a" >>

SuffixValue == << "/", "V", "a", "l", "u", "e" >>

SuffixUnknown == << "/", "U", "n", "k", "n", "o", "w", "n" >>

\* a strip_suffix that cuts off as many characters as the suffix has without
\* comparing them
StripSuffixUnchecked(s, suffix) ==
    IF Len(s) >= Len(suffix)
    THEN Some(SubSeq(s, 1, Len(s) - Len(suffix)))
    ELSE None

\* str::strip_suffix
StripSuffix(s, suffix) ==
    IF Len(s) >= Len(suffix)
       /\ SubSeq(s, Len(s) - Len(suffix) + 1, Len(s)) = suffix
    THEN Some(SubSeq(s, 1, Len(s) - Len(suffix)))
    ELSE None

\* str::strip_prefix
StripPrefix(s, prefix) ==
    IF Len(s) >= Len(prefix) /\ SubSeq(s, 1, Len(prefix)) = prefix
    THEN Some(SubSeq(s, Len(prefix) + 1, Len(s)))
    ELSE None

\* extract_point_path: strip_suffix("/Metadata"), or else
\* strip_suffix("/Value"), and then strip_prefix(prefix)
ExtractPointPath(topic, prefix) ==
    LET m == StripSuffix(topic, SuffixMetadata)
        s == IF IsSome(m) THEN m ELSE StripSuffix(topic, SuffixValue)
    IN  IF IsSome(s) THEN StripPrefix(Unwrap(s), prefix) ELSE None

----------------------------------------------------------------------------
(* Message model (messages.rs).                                            *)

FaultValues == { "Clear", "Faulting" }

LeakPointTypes == { "LeakDetectRack", "LeakSensorFaultRack", "LeakDetectRackTray" }

\* Result<T, E>
Ok(x) == << "Ok", x >>

Err(e) == << "Err", e >>

\* A JSON number: its sign, its magnitude counted in halves (0, 0.5, 1, ...)
\* and whether it is written as a float.  An integer literal is a whole number.
JsonNumbers ==
    { n \in [ neg : BOOLEAN, halves : 0..(2 * MaxNumber), float : BOOLEAN ] :
        n.float \/ n.halves % 2 = 0 }

\* a visit_u64 that takes every non-zero integer for Faulting
VisitU64NonZero(v) == IF v = 0 THEN Ok("Clear") ELSE Ok("Faulting")

\* BinaryValueVisitor::visit_u64
VisitU64(v) ==
    CASE v = 0 -> Ok("Clear")
      [] v = 1 -> Ok("Faulting")
      [] OTHER -> Err("invalid binary value")

\* BinaryValueVisitor::visit_f64: v == 0.0 also holds for -0.0
VisitF64(neg, halves) ==
    IF halves = 0 THEN Ok("Clear")
    ELSE IF ~neg /\ halves = 2 THEN Ok("Faulting")
    ELSE Err("invalid binary value")

\* BinaryValueVisitor has no visit_i64: the default of serde's Visitor
VisitI64(magnitude) == Err("invalid type")

\* FaultValue::deserialize: deserialize_any hands a non-negative integer to
\* visit_u64, a negative integer to visit_i64 and a float to visit_f64 (the
\* literal -0 is read as the float -0.0)
DeserializeFaultValue(n) ==
    IF n.float \/ (n.neg /\ n.halves = 0) THEN VisitF64(n.neg, n.halves)
    ELSE IF ~n.neg THEN VisitU64(n.halves \div 2)
    ELSE VisitI64(n.halves \div 2)

\* the JSON integer literal k, as serde_json writes a u8
JsonInteger(k) == [ neg |-> FALSE, halves |-> 2 * k, float |-> FALSE ]

\* a serializer that writes the position of the variant counted from one
SerializeFaultValueFromOne(value) ==
    IF value = "Clear" THEN JsonInteger(1) ELSE JsonInteger(2)

\* FaultValue::serialize: serialize_u8(0) for Clear, serialize_u8(1) for Faulting
SerializeFaultValue(value) ==
    IF value = "Clear" THEN JsonInteger(0) ELSE JsonInteger(1)

\* LeakMetadata::is_supported_leak_type
IsSupportedLeakType(metadata) ==
    metadata.point_type \in { "LeakDetectRack", "LeakSensorFaultRack", "LeakDetectRackTray" }

\* a leak_point_type whose match lacks the arm of the rack tray
LeakPointTypeWithoutTray(metadata) ==
    CASE metadata.point_type = "LeakDetectRack"      -> Some("LeakDetectRack")
      [] metadata.point_type = "LeakSensorFaultRack" -> Some("LeakSensorFaultRack")
      [] OTHER                                       -> None

\* LeakMetadata::leak_point_type: Option<LeakPointType>
LeakPointType(metadata) ==
    CASE metadata.point_type = "LeakDetectRack"      -> Some("LeakDetectRack")
      [] metadata.point_type = "LeakSensorFaultRack" -> Some("LeakSensorFaultRack")
      [] metadata.point_type = "LeakDetectRackTray"  -> Some("LeakDetectRackTray")
      [] OTHER                                       -> None

\* a probe id that does not depend on the leak point type
ProbeIdSameForAll(leak_type) == "BmsLeakDetectRack"

\* LeakPointType::probe_id
ProbeId(leak_type) ==
    CASE leak_type = "LeakDetectRack"      -> "BmsLeakDetectRack"
      [] leak_type = "LeakSensorFaultRack" -> "BmsLeakSensorFaultRack"
      [] leak_type = "LeakDetectRackTray"  -> "BmsLeakDetectRackTray"

\* LeakPointType::description
Description(leak_type) ==
    CASE leak_type = "LeakDetectRack"      -> "Leak detected"
      [] leak_type = "LeakSensorFaultRack" -> "Leak sensor fault"
      [] leak_type = "LeakDetectRackTray"  -> "Rack tray leak detected"

HEALTH_REPORT_SOURCE == "dsx-exchange-consumer"

\* build_leak_alert_report (the two timestamps are left out)
BuildLeakAlertReport(metadata, leak_type) ==
    [ source    |-> HEALTH_REPORT_SOURCE,
      successes |-> << >>,
      alerts    |-> << [ id              |-> ProbeId(leak_type),
                         target          |-> Some(metadata.rack_id),
                         message         |-> << Description(leak_type), " on rack ",
                                                metadata.rack_name, " (",
                                                metadata.rack_id, ")" >>,
                         tenant_message  |-> None,
                         classifications |-> << "PreventAllocations",
                                                "SensorCritical",
                                                "Hardware" >> ] >> ]

----------------------------------------------------------------------------
(* Inputs.                                                                 *)

\* HealthUpdater.topic_prefix
TopicPrefix == << "c", "/" >>

PathA == << "a" >>

PathB == << "b" >>

\* sensor paths of the one-task specification and of the concurrent one
OnePath == { PathA }

TwoPaths == { PathA, PathB }

\* well formed topics of MqttMessage::Value and of MqttMessage::Metadata
ValueTopics(paths) == { TopicPrefix \o p \o SuffixValue : p \in paths }

MetadataTopics(paths) == { TopicPrefix \o p \o SuffixMetadata : p \in paths }

\* malformed topics: one without the prefix, one with an unknown suffix
BadValueTopics == { PathA \o SuffixValue }

BadMetadataTopics == { TopicPrefix \o PathA \o SuffixUnknown }

\* test_metadata(point_type, rack_id)
TestMetadata(point_type, rack_id) ==
    [ point_type  |-> point_type,
      object_type |-> "Rack",
      rack_name   |-> << "Rack-", rack_id >>,
      rack_id     |-> rack_id ]

\* metadata of the concurrent specification
SupportedInputs == { TestMetadata("LeakDetectRack", "rack-001") }

\* metadata of the one-task specification: one supported, one unsupported
MetadataInputs == SupportedInputs \cup { TestMetadata("UnsupportedType", "rack-001") }

\* test_multiple_racks_independent: the sensor of each path sits in a rack
\* of its own
RackOf(p) == IF p = PathA THEN "rack-001" ELSE "rack-002"

RackMetadata(p) == TestMetadata("LeakDetectRack", RackOf(p))

\* point_type strings: the three supported ones, the unsupported ones of
\* the tests, and strings close to a supported one
PointTypeStrings ==
    LeakPointTypes \cup { "LeakResponseRackLiquidIsolationStatus", "UnsupportedType",
                          "", "leakdetectrack", "LeakDetect" }

PointTypeInputs == { TestMetadata(point_type, "rack-001") : point_type \in PointTypeStrings }

\* metadata messages that name different racks for one path
RackInputs == { RackMetadata(p) : p \in TwoPaths }

----------------------------------------------------------------------------
(* moka::future::Cache with time_to_live.                                  *)

\* entries that never expire
LiveForever(entry, ttl) == TRUE

\* an entry is live while less than ttl has elapsed since its last write
Live(entry, ttl) == entry.age < ttl

\* Cache::get that never checks the age of the entry
CacheGetIgnoringTtl(cache, key, ttl) ==
    IF key \in DOMAIN cache THEN Some(cache[key].value) ELSE None

\* a Cache::get that does not match the whole key: when the key has no live
\* entry it answers with the live entry of another key
CacheGetAnyKey(cache, key, ttl) ==
    IF key \in DOMAIN cache /\ cache[key].age < ttl
    THEN Some(cache[key].value)
    ELSE LET others == { k \in DOMAIN cache : cache[k].age < ttl }
         IN  IF others # {}
             THEN Some(cache[CHOOSE k \in others : TRUE].value)
             ELSE None

\* Cache::get
CacheGet(cache, key, ttl) ==
    IF key \in DOMAIN cache /\ Live(cache[key], ttl)
    THEN Some(cache[key].value)
    ELSE None

\* a cache whose write keeps the entry a key already has
CachePutIfAbsent(cache, key, value) ==
    [ k \in DOMAIN cache \cup { key } |->
        IF k \in DOMAIN cache THEN cache[k] ELSE [ value |-> value, age |-> 0 ] ]

\* a cache that does not keep its keys apart: a write replaces every entry
CachePutAllKeys(cache, key, value) ==
    [ k \in DOMAIN cache \cup { key } |-> [ value |-> value, age |-> 0 ] ]

\* Cache::insert and Op::Put: overwrite, and restart the entry's clock
CachePut(cache, key, value) ==
    [ k \in DOMAIN cache \cup { key } |->
        IF k = key THEN [ value |-> value, age |-> 0 ] ELSE cache[k] ]

\* one time unit passes: every entry ages; an entry that has reached ttl is
\* expired, stays in the map until it is overwritten and ages no further
CacheAdvance(cache, ttl) ==
    [ k \in DOMAIN cache |->
        [ cache[k] EXCEPT !.age = IF @ < ttl THEN @ + 1 ELSE @ ] ]

----------------------------------------------------------------------------
(* Tasks.  run() is the one consuming task of the deployment; the cache    *)
(* contract is also exercised by several tasks calling the handlers.       *)

RunTask == "run"

Tasks == { RunTask, "producer" }

\* locals of a task that is not inside handle_value_message
NoCall ==
    [ topic |-> << >>, path |-> None, value |-> "", metadata |-> None,
      leak_type |-> None, idx |-> 0 ]

\* what RecordingSink keeps of a call; report is None for a remove
SinkCall(kind, rack_id, report) ==
    [ kind |-> kind, rack_id |-> rack_id, report |-> report ]

\* one handled value message: outcome is one of no_path, no_metadata,
\* unsupported, dedup, pending (downstream call in flight), ok, err
Event(topic, path, value, prior, outcome, call) ==
    [ topic |-> topic, path |-> path, value |-> value,
      prior |-> prior, outcome |-> outcome, call |-> call ]

\* no free function is being applied on its own
NotCalled == [ args |-> << >>, result |-> << >> ]

\* HealthUpdater::new: empty caches, nothing handled
InitUpdater ==
    /\ metadata_cache = << >>
    /\ value_state_cache = << >>
    /\ metrics = [ messages_processed |-> 0, alerts_detected |-> 0, dedup_skipped |-> 0 ]
    /\ pc = [ t \in Tasks |-> "idle" ]
    /\ cur = [ t \in Tasks |-> NoCall ]
    /\ log = << >>
    /\ last_metadata = << >>
    /\ rx = << >>
    /\ closed = FALSE
    /\ sent = << >>
    /\ taken = << >>

Init ==
    /\ InitUpdater
    /\ pure_call = NotCalled

----------------------------------------------------------------------------
(* HealthUpdater::handle_metadata_message.                                 *)

\* a metadata handler without the is_supported_leak_type filter
MetadataCacheAfterUnfiltered(cache, topic, metadata) ==
    LET point_path == ExtractPointPath(topic, TopicPrefix)
    IN  IF IsSome(point_path)
        THEN CachePut(cache, Unwrap(point_path), metadata)
        ELSE cache

\* a handler that falls back to the whole topic as the key when no path can
\* be extracted from it
MetadataCacheAfterKeyedByTopic(cache, topic, metadata) ==
    IF ~IsSupportedLeakType(metadata)
    THEN cache
    ELSE LET point_path == ExtractPointPath(topic, TopicPrefix)
         IN  IF IsSome(point_path)
             THEN CachePut(cache, Unwrap(point_path), metadata)
             ELSE CachePut(cache, topic, metadata)

\* the metadata cache after a metadata message
MetadataCacheAfter(cache, topic, metadata) ==
    IF ~IsSupportedLeakType(metadata)
    THEN cache
    ELSE LET point_path == ExtractPointPath(topic, TopicPrefix)
         IN  IF IsSome(point_path)
             THEN CachePut(cache, Unwrap(point_path), metadata)
             ELSE cache

HandleMetadataMessage(t, topic, metadata) ==
    /\ pc[t] = "idle"
    /\ metadata_cache' = MetadataCacheAfter(metadata_cache, topic, metadata)
    /\ last_metadata' =
          LET key == ExtractPointPath(topic, TopicPrefix)
          IN  IF IsSome(key)
              THEN [ k \in DOMAIN last_metadata \cup { Unwrap(key) } |->
                       IF k = Unwrap(key) THEN metadata ELSE last_metadata[k] ]
              ELSE last_metadata
    /\ UNCHANGED << value_state_cache, metrics, pc, cur, log, pure_call >>

----------------------------------------------------------------------------
(* HealthUpdater::handle_value_message.                                    *)

\* lines 107-138: why the message is dropped before the state cache is
\* consulted, or "" when it is not
DropReason(point_path, metadata, leak_type) ==
    IF ~IsSome(point_path) THEN "no_path"
    ELSE IF ~IsSome(metadata) THEN "no_metadata"
    ELSE IF ~IsSome(leak_type) THEN "unsupported"
    ELSE ""

\* the message is taken, its path extracted and its metadata looked up
HandleValueMessage(t, topic, value) ==
    /\ pc[t] = "idle"
    /\ LET point_path == ExtractPointPath(topic, TopicPrefix)
           metadata   == IF IsSome(point_path)
                         THEN CacheGet(metadata_cache, Unwrap(point_path), MetadataTtl)
                         ELSE None
           leak_type  == IF IsSome(metadata) THEN LeakPointType(Unwrap(metadata)) ELSE None
           drop       == DropReason(point_path, metadata, leak_type)
       IN  IF drop # ""
           THEN /\ log' = Append(log, Event(topic, point_path, value, None, drop, None))
                /\ UNCHANGED << pc, cur >>
           ELSE /\ pc' = [ pc EXCEPT ![t] = "compute" ]
                /\ cur' = [ cur EXCEPT ![t] =
                              [ topic |-> topic, path |-> point_path, value |-> value,
                                metadata |-> metadata, leak_type |-> leak_type, idx |-> 0 ] ]
                /\ UNCHANGED log
    /\ UNCHANGED << metadata_cache, value_state_cache, metrics, last_metadata, pure_call >>

\* a cache with one lock for all keys: any update function in progress
\* makes every key busy
AnyKeyBusy(point_path) == \E u \in Tasks : pc[u] = "calling"

\* a cache whose compute does not serialize the update functions of a key
KeyNeverBusy(point_path) == FALSE

\* and_try_compute_with runs the update functions of one key one at a time:
\* the key is busy while a task is inside its update function
KeyBusy(point_path) ==
    \E u \in Tasks : pc[u] = "calling" /\ cur[u].path = point_path

\* a deduplication check that never matches
NeverDuplicate(maybe_entry, value) == FALSE

\* a deduplication check that looks only for an entry, not at its value
DuplicateIfPresent(maybe_entry, value) == IsSome(maybe_entry)

\* a deduplication check that takes an absent entry for a Clear one
DuplicateIfAbsentClear(maybe_entry, value) ==
    \/ IsSome(maybe_entry) /\ Unwrap(maybe_entry) = value
    \/ ~IsSome(maybe_entry) /\ value = "Clear"

\* lines 155-157: the deduplication check
IsDuplicate(maybe_entry, value) ==
    IsSome(maybe_entry) /\ Unwrap(maybe_entry) = value

\* an update function that inserts whatever the value is
DownstreamCallInsertOnly(value, metadata, leak_type) ==
    SinkCall("insert", metadata.rack_id, Some(BuildLeakAlertReport(metadata, leak_type)))

\* lines 169-194: the downstream call made for a value
DownstreamCall(value, metadata, leak_type) ==
    IF value = "Faulting"
    THEN SinkCall("insert", metadata.rack_id,
                  Some(BuildLeakAlertReport(metadata, leak_type)))
    ELSE SinkCall("remove", metadata.rack_id, None)

\* an update function that records the dedup skip before the check
UpdateFnCountingEveryLookup(t) ==
    /\ pc[t] = "compute"
    /\ ~KeyBusy(cur[t].path)
    /\ LET c           == cur[t]
           maybe_entry == CacheGet(value_state_cache, Unwrap(c.path), ValueStateTtl)
       IN  IF IsDuplicate(maybe_entry, c.value)
           THEN /\ metrics' = [ metrics EXCEPT !.dedup_skipped = @ + 1 ]
                /\ log' = Append(log, Event(c.topic, c.path, c.value, maybe_entry,
                                            "dedup", None))
                /\ pc' = [ pc EXCEPT ![t] = "returned" ]
                /\ cur' = [ cur EXCEPT ![t].idx = Len(log) + 1 ]
           ELSE /\ metrics' = [ metrics EXCEPT !.dedup_skipped = @ + 1,
                                               !.alerts_detected =
                                   IF c.value = "Faulting" THEN @ + 1 ELSE @ ]
                /\ log' = Append(log, Event(c.topic, c.path, c.value, maybe_entry, "pending",
                                            Some(DownstreamCall(c.value, Unwrap(c.metadata),
                                                                Unwrap(c.leak_type)))))
                /\ pc' = [ pc EXCEPT ![t] = "calling" ]
                /\ cur' = [ cur EXCEPT ![t].idx = Len(log) + 1 ]
    /\ UNCHANGED << metadata_cache, value_state_cache, last_metadata, inbound, pure_call >>

\* an update function that records an alert for a remove as well
UpdateFnCountingEveryCall(t) ==
    /\ pc[t] = "compute"
    /\ ~KeyBusy(cur[t].path)
    /\ LET c           == cur[t]
           maybe_entry == CacheGet(value_state_cache, Unwrap(c.path), ValueStateTtl)
       IN  IF IsDuplicate(maybe_entry, c.value)
           THEN /\ metrics' = [ metrics EXCEPT !.dedup_skipped = @ + 1 ]
                /\ log' = Append(log, Event(c.topic, c.path, c.value, maybe_entry,
                                            "dedup", None))
                /\ pc' = [ pc EXCEPT ![t] = "returned" ]
                /\ cur' = [ cur EXCEPT ![t].idx = Len(log) + 1 ]
           ELSE /\ metrics' = [ metrics EXCEPT !.alerts_detected = @ + 1 ]
                /\ log' = Append(log, Event(c.topic, c.path, c.value, maybe_entry, "pending",
                                            Some(DownstreamCall(c.value, Unwrap(c.metadata),
                                                                Unwrap(c.leak_type)))))
                /\ pc' = [ pc EXCEPT ![t] = "calling" ]
                /\ cur' = [ cur EXCEPT ![t].idx = Len(log) + 1 ]
    /\ UNCHANGED << metadata_cache, value_state_cache, last_metadata, inbound, pure_call >>

\* the update function starts: deduplication check, else the downstream call
UpdateFn(t) ==
    /\ pc[t] = "compute"
    /\ ~KeyBusy(cur[t].path)
    /\ LET c           == cur[t]
           maybe_entry == CacheGet(value_state_cache, Unwrap(c.path), ValueStateTtl)
       IN  IF IsDuplicate(maybe_entry, c.value)
           THEN /\ metrics' = [ metrics EXCEPT !.dedup_skipped = @ + 1 ]
                /\ log' = Append(log, Event(c.topic, c.path, c.value, maybe_entry,
                                            "dedup", None))
                /\ pc' = [ pc EXCEPT ![t] = "returned" ]
                /\ cur' = [ cur EXCEPT ![t].idx = Len(log) + 1 ]
           ELSE /\ metrics' = [ metrics EXCEPT !.alerts_detected =
                                   IF c.value = "Faulting" THEN @ + 1 ELSE @ ]
                /\ log' = Append(log, Event(c.topic, c.path, c.value, maybe_entry, "pending",
                                            Some(DownstreamCall(c.value, Unwrap(c.metadata),
                                                                Unwrap(c.leak_type)))))
                /\ pc' = [ pc EXCEPT ![t] = "calling" ]
                /\ cur' = [ cur EXCEPT ![t].idx = Len(log) + 1 ]
    /\ UNCHANGED << metadata_cache, value_state_cache, last_metadata, inbound, pure_call >>

\* a commit that stores the value whatever the downstream call returned
CommitAlways(cache, point_path, value, ok) == CachePut(cache, point_path, value)

\* a commit that removes the entry when the downstream call failed
CommitOrEvict(cache, point_path, value, ok) ==
    IF ok
    THEN CachePut(cache, point_path, value)
    ELSE [ k \in DOMAIN cache \ { point_path } |-> cache[k] ]

\* lines 196-199: Op::Put(value) on Ok, nothing stored on Err
Commit(cache, point_path, value, ok) ==
    IF ok THEN CachePut(cache, point_path, value) ELSE cache

\* a handler with a retry of its own: after Err the update function is
\* entered again for the same message
CallReturnsRetrying(t, ok) ==
    /\ pc[t] = "calling"
    /\ value_state_cache' = Commit(value_state_cache, Unwrap(cur[t].path), cur[t].value, ok)
    /\ log' = [ log EXCEPT ![cur[t].idx].outcome = IF ok THEN "ok" ELSE "err" ]
    /\ pc' = [ pc EXCEPT ![t] = IF ok THEN "returned" ELSE "compute" ]
    /\ cur' = [ cur EXCEPT ![t] = IF ok THEN cur[t] ELSE [ cur[t] EXCEPT !.idx = 0 ] ]
    /\ UNCHANGED << metadata_cache, metrics, last_metadata, inbound, pure_call >>

\* a handler that records the message as processed whatever the result
CallReturnsCountingFailures(t, ok) ==
    /\ pc[t] = "calling"
    /\ value_state_cache' = Commit(value_state_cache, Unwrap(cur[t].path), cur[t].value, ok)
    /\ log' = [ log EXCEPT ![cur[t].idx].outcome = IF ok THEN "ok" ELSE "err" ]
    /\ pc' = [ pc EXCEPT ![t] = "returned" ]
    /\ UNCHANGED cur
    /\ UNCHANGED << metadata_cache, metrics, last_metadata, inbound, pure_call >>

\* lines 196-202: the downstream call returns, with Ok or with Err; the
\* entry is committed on Ok, the key is released and and_try_compute_with
\* returns.  On Err the handler has nothing left to do (208-210).
CallReturns(t, ok) ==
    /\ pc[t] = "calling"
    /\ value_state_cache' = Commit(value_state_cache, Unwrap(cur[t].path), cur[t].value, ok)
    /\ log' = [ log EXCEPT ![cur[t].idx].outcome = IF ok THEN "ok" ELSE "err" ]
    /\ pc' = [ pc EXCEPT ![t] = IF ok THEN "returned" ELSE "idle" ]
    /\ cur' = [ cur EXCEPT ![t] = IF ok THEN cur[t] ELSE NoCall ]
    /\ UNCHANGED << metadata_cache, metrics, last_metadata, inbound, pure_call >>

\* lines 204-207: and_try_compute_with has returned Ok, after a dedup-skip
\* or a committed call, and the key is free again; the handler records the
\* message as processed and returns
RecordMessageProcessed(t) ==
    /\ pc[t] = "returned"
    /\ metrics' = [ metrics EXCEPT !.messages_processed = @ + 1 ]
    /\ pc' = [ pc EXCEPT ![t] = "idle" ]
    /\ cur' = [ cur EXCEPT ![t] = NoCall ]
    /\ UNCHANGED << metadata_cache, value_state_cache, log, last_metadata,
                    inbound, pure_call >>

----------------------------------------------------------------------------
(* Time.                                                                   *)

\* One time unit passes, wherever the tasks are: the handlers await between
\* the metadata lookup, the update function and the downstream call.
Tick ==
    /\ metadata_cache' = CacheAdvance(metadata_cache, MetadataTtl)
    /\ value_state_cache' = CacheAdvance(value_state_cache, ValueStateTtl)
    /\ UNCHANGED << metrics, pc, cur, log, last_metadata, inbound, pure_call >>

----------------------------------------------------------------------------
(* Specifications.                                                         *)

\* the handlers called directly, as the tests of health_updater.rs call them
MetadataArrives(t, topics, inputs) ==
    /\ \E topic \in topics, metadata \in inputs :
          HandleMetadataMessage(t, topic, metadata)
    /\ UNCHANGED inbound

ValueArrives(t, topics, bound) ==
    /\ Len(log) + Cardinality({ u \in Tasks : pc[u] = "compute" }) < bound
    /\ \E topic \in topics, value \in FaultValues :
          HandleValueMessage(t, topic, value)
    /\ UNCHANGED inbound

SinkAnswers(t) == \E ok \in BOOLEAN : CallReturns(t, ok)

\* one task: every handler is awaited before the next message is taken
Next ==
    \/ MetadataArrives(RunTask, MetadataTopics(OnePath) \cup BadMetadataTopics, MetadataInputs)
    \/ ValueArrives(RunTask, ValueTopics(OnePath) \cup BadValueTopics, MaxLog)
    \/ UpdateFn(RunTask)
    \/ SinkAnswers(RunTask)
    \/ RecordMessageProcessed(RunTask)
    \/ Tick

Spec == Init /\ [][Next]_vars

\* several tasks call the handlers concurrently
NextConcurrent ==
    \/ \E t \in Tasks : MetadataArrives(t, MetadataTopics(TwoPaths), SupportedInputs)
    \/ \E t \in Tasks : ValueArrives(t, ValueTopics(TwoPaths), MaxConcurrent)
    \/ \E t \in Tasks : UpdateFn(t)
    \/ \E t \in Tasks : SinkAnswers(t)
    \/ \E t \in Tasks : RecordMessageProcessed(t)
    \/ Tick

SpecConcurrent == Init /\ [][NextConcurrent]_vars

\* several tasks, two sensor paths that name two racks
NextRacks ==
    \/ \E t \in Tasks, p \in TwoPaths :
          MetadataArrives(t, MetadataTopics({ p }), { RackMetadata(p) })
    \/ \E t \in Tasks : ValueArrives(t, ValueTopics(TwoPaths), MaxRacks)
    \/ \E t \in Tasks : UpdateFn(t)
    \/ \E t \in Tasks : SinkAnswers(t)
    \/ \E t \in Tasks : RecordMessageProcessed(t)
    \/ Tick

SpecRacks == Init /\ [][NextRacks]_vars

\* one task, one sensor path whose metadata is rewritten with another rack
NextRewrite ==
    \/ MetadataArrives(RunTask, MetadataTopics(OnePath), RackInputs)
    \/ ValueArrives(RunTask, ValueTopics(OnePath), MaxRewrite)
    \/ UpdateFn(RunTask)
    \/ SinkAnswers(RunTask)
    \/ RecordMessageProcessed(RunTask)
    \/ Tick

SpecRewrite == Init /\ [][NextRewrite]_vars

\* one task, two sensor paths whose metadata names the same rack
NextSharedRack ==
    \/ MetadataArrives(RunTask, MetadataTopics(TwoPaths), SupportedInputs)
    \/ ValueArrives(RunTask, ValueTopics(TwoPaths), MaxShared)
    \/ UpdateFn(RunTask)
    \/ SinkAnswers(RunTask)
    \/ RecordMessageProcessed(RunTask)
    \/ Tick

SpecSharedRack == Init /\ [][NextSharedRack]_vars

\* one task, one sensor path, metadata of every point_type string
NextSupport ==
    \/ MetadataArrives(RunTask, MetadataTopics(OnePath), PointTypeInputs)
    \/ ValueArrives(RunTask, ValueTopics(OnePath), MaxSupport)
    \/ UpdateFn(RunTask)
    \/ SinkAnswers(RunTask)
    \/ RecordMessageProcessed(RunTask)
    \/ Tick

SpecSupport == Init /\ [][NextSupport]_vars

----------------------------------------------------------------------------
(* The free functions of health_updater.rs, applied on their own.          *)

\* the variables of the updater and of its channel
updater == << metadata_cache, value_state_cache, metrics, pc, cur, log, last_metadata,
              rx, closed, sent, taken >>

\* the function has been applied and has returned
Returned == pure_call.result # << >>

\* prefixes as in test_extract_point_path_*: the configured one, a custom
\* one, a wrong one, and the empty prefix
CustomPrefix == << "p", "/" >>

WrongPrefix == << "w", "/" >>

Prefixes == { TopicPrefix, CustomPrefix, WrongPrefix, << >> }

\* point paths: every string of at most MaxPathLen characters
PathChars == { "a", "/" }

ExtractPaths == UNION { [ 1..k -> PathChars ] : k \in 0..MaxPathLen }

\* what a topic ends in: a known suffix, an unknown one, none, or two
TopicEndings ==
    { SuffixMetadata, SuffixValue, SuffixUnknown, << >>,
      SuffixValue \o SuffixMetadata, SuffixMetadata \o SuffixValue }

ExtractTopics ==
    { a \o p \o e : a \in Prefixes, p \in ExtractPaths, e \in TopicEndings }

InitExtract ==
    /\ InitUpdater
    /\ pure_call \in { [ args |-> << topic, prefix >>, result |-> << >> ] :
                          topic \in ExtractTopics, prefix \in Prefixes }

\* extract_point_path(topic, prefix) is applied
ApplyExtractPointPath ==
    /\ pure_call.args # << >>
    /\ ~Returned
    /\ pure_call' = [ pure_call EXCEPT
                        !.result = << ExtractPointPath(pure_call.args[1], pure_call.args[2]) >> ]
    /\ UNCHANGED updater

NextExtract == ApplyExtractPointPath

SpecExtract == InitExtract /\ [][NextExtract]_vars

\* test_parse_value_message_*: a FaultValue is decoded from a JSON number
InitDecode ==
    /\ InitUpdater
    /\ pure_call \in { [ args |-> << n >>, result |-> << >> ] : n \in JsonNumbers }

ApplyDeserialize ==
    /\ pure_call.args # << >>
    /\ ~Returned
    /\ pure_call' = [ pure_call EXCEPT !.result = << DeserializeFaultValue(pure_call.args[1]) >> ]
    /\ UNCHANGED updater

NextDecode == ApplyDeserialize

SpecDecode == InitDecode /\ [][NextDecode]_vars

\* the FaultValue that was decoded is serialized
ApplySerialize ==
    /\ Len(pure_call.result) = 1
    /\ pure_call.result[1][1] = "Ok"
    /\ pure_call' = [ pure_call EXCEPT
                        !.result = Append(@, SerializeFaultValue(pure_call.result[1][2])) ]
    /\ UNCHANGED updater

\* the serialized form is decoded
ApplyDeserializeAgain ==
    /\ Len(pure_call.result) = 2
    /\ pure_call' = [ pure_call EXCEPT
                        !.result = Append(@, DeserializeFaultValue(pure_call.result[2])) ]
    /\ UNCHANGED updater

\* a FaultValue decoded from the wire is serialized and decoded again
NextRoundTrip == ApplyDeserialize \/ ApplySerialize \/ ApplyDeserializeAgain

SpecRoundTrip == InitDecode /\ [][NextRoundTrip]_vars

\* test_build_leak_alert_report_*: metadata of every point type, supported
\* or not, for three racks and two object types
ReportMetadata ==
    { [ TestMetadata(point_type, rack_id) EXCEPT !.object_type = object_type ] :
        point_type \in LeakPointTypes \cup { "UnsupportedType" },
        rack_id \in { "rack-001", "rack-002", "rack-003" },
        object_type \in { "Rack", "Tray" } }

InitReport ==
    /\ InitUpdater
    /\ pure_call \in { [ args |-> << metadata, leak_type >>, result |-> << >> ] :
                          metadata \in ReportMetadata, leak_type \in LeakPointTypes }

\* build_leak_alert_report(metadata, leak_type) is applied
ApplyBuildLeakAlertReport ==
    /\ pure_call.args # << >>
    /\ ~Returned
    /\ pure_call' = [ pure_call EXCEPT
                        !.result = << BuildLeakAlertReport(pure_call.args[1], pure_call.args[2]) >> ]
    /\ UNCHANGED updater

NextReport == ApplyBuildLeakAlertReport

SpecReport == InitReport /\ [][NextReport]_vars

----------------------------------------------------------------------------
(* HealthUpdater::run.                                                     *)

\* MqttMessage::Metadata { topic, metadata }
MetadataMessage(topic, metadata) ==
    [ kind |-> "Metadata", topic |-> topic, metadata |-> Some(metadata), value |-> None ]

\* MqttMessage::Value { topic, value }
ValueMessage(topic, value) ==
    [ kind |-> "Value", topic |-> topic, metadata |-> None, value |-> Some(value) ]

\* what the owner of the channel sends
RunMessages ==
    { MetadataMessage(topic, metadata) :
        topic \in MetadataTopics(OnePath), metadata \in MetadataInputs }
    \cup { ValueMessage(topic, value) :
        topic \in ValueTopics(OnePath) \cup BadValueTopics, value \in FaultValues }

\* handlers spawned on any task instead of awaited
SpawnedHandlerTasks == Tasks

\* run() awaits each handler: the handlers run on the task of run() itself
HandlerTasks == { RunTask }

\* a recv() that returns None as soon as the channel is closed
ChannelEndedWhenClosed == closed

\* a recv() that also gives up after a failed downstream call
ChannelEndedOrFailed ==
    \/ closed /\ rx = << >>
    \/ log # << >> /\ log[Len(log)].outcome = "err"

\* rx.recv() returns None: every Sender dropped and no message left queued
ChannelEnded == closed /\ rx = << >>

\* tx.send(msg) by the owner of the channel
Send(msg, bound) ==
    /\ ~closed
    /\ Len(sent) < bound
    /\ rx' = Append(rx, msg)
    /\ sent' = Append(sent, msg)
    /\ UNCHANGED << metadata_cache, value_state_cache, metrics, pc, cur, log,
                    last_metadata, closed, taken, pure_call >>

\* drop(tx) by the owner of the channel
Close ==
    /\ ~closed
    /\ closed' = TRUE
    /\ UNCHANGED << metadata_cache, value_state_cache, metrics, pc, cur, log,
                    last_metadata, rx, sent, taken, pure_call >>

\* lines 70-78: rx.recv() returns Some(msg) and msg is dispatched
Recv(t) ==
    /\ pc[RunTask] # "stopped"
    /\ rx # << >>
    /\ LET msg == Head(rx)
       IN  /\ rx' = Tail(rx)
           /\ taken' = Append(taken, msg)
           /\ IF msg.kind = "Metadata"
              THEN HandleMetadataMessage(t, msg.topic, Unwrap(msg.metadata))
              ELSE HandleValueMessage(t, msg.topic, Unwrap(msg.value))
    /\ UNCHANGED << closed, sent >>

\* lines 70 and 81: rx.recv() returns None and run() returns
RunReturns ==
    /\ pc[RunTask] = "idle"
    /\ ChannelEnded
    /\ pc' = [ pc EXCEPT ![RunTask] = "stopped" ]
    /\ UNCHANGED << metadata_cache, value_state_cache, metrics, cur, log,
                    last_metadata, inbound, pure_call >>

NextRun ==
    \/ \E msg \in RunMessages : Send(msg, MaxSent)
    \/ Close
    \/ \E t \in HandlerTasks : Recv(t)
    \/ \E t \in HandlerTasks : UpdateFn(t)
    \/ \E t \in HandlerTasks : SinkAnswers(t)
    \/ \E t \in HandlerTasks : RecordMessageProcessed(t)
    \/ RunReturns
    \/ Tick

SpecRun == Init /\ [][NextRun]_vars

\* the task of run() is scheduled, and every downstream call returns
SpecRunFair ==
    /\ SpecRun
    /\ WF_vars(\E t \in HandlerTasks : Recv(t))
    /\ WF_vars(\E t \in HandlerTasks : UpdateFn(t))
    /\ WF_vars(\E t \in HandlerTasks : SinkAnswers(t))
    /\ WF_vars(\E t \in HandlerTasks : RecordMessageProcessed(t))
    /\ WF_vars(RunReturns)

\* value messages that recur for a sensor path with supported metadata
HealMessages ==
    { MetadataMessage(topic, metadata) :
        topic \in MetadataTopics(OnePath), metadata \in SupportedInputs }
    \cup { ValueMessage(topic, value) :
        topic \in ValueTopics(OnePath), value \in FaultValues }

\* run() on a channel that stays open
NextHeal ==
    \/ \E msg \in HealMessages : Send(msg, MaxHeal)
    \/ \E t \in HandlerTasks : Recv(t)
    \/ \E t \in HandlerTasks : UpdateFn(t)
    \/ \E t \in HandlerTasks : SinkAnswers(t)
    \/ \E t \in HandlerTasks : RecordMessageProcessed(t)
    \/ Tick

\* the task of run() is scheduled, and every downstream call returns
SpecHealFair ==
    /\ Init
    /\ [][NextHeal]_vars
    /\ WF_vars(\E t \in HandlerTasks : Recv(t))
    /\ WF_vars(\E t \in HandlerTasks : UpdateFn(t))
    /\ WF_vars(\E t \in HandlerTasks : SinkAnswers(t))
    /\ WF_vars(\E t \in HandlerTasks : RecordMessageProcessed(t))

\* messages on topics of the sensor path and on topics from which no path
\* can be extracted: an unknown suffix, a missing prefix
DropMessages ==
    { MetadataMessage(topic, metadata) :
        topic \in MetadataTopics(OnePath) \cup BadMetadataTopics, metadata \in RackInputs }
    \cup { ValueMessage(topic, value) :
        topic \in ValueTopics(OnePath) \cup BadValueTopics, value \in FaultValues }

\* run() on a channel that carries malformed topics
NextDrop ==
    \/ \E msg \in DropMessages : Send(msg, MaxDrop)
    \/ \E t \in HandlerTasks : Recv(t)
    \/ \E t \in HandlerTasks : UpdateFn(t)
    \/ \E t \in HandlerTasks : SinkAnswers(t)
    \/ \E t \in HandlerTasks : RecordMessageProcessed(t)
    \/ Tick

SpecDrop == Init /\ [][NextDrop]_vars

----------------------------------------------------------------------------
(* Reading the log.                                                        *)

\* the events of one sensor path, in the order they were handled
PathEvents(p) == SelectSeq(log, LAMBDA e : e.path = Some(p))

\* the message made a downstream call
MadeCall(e) == e.call # None

\* "insert", "remove", or "none" when the message made no downstream call
CallKind(e) == IF MadeCall(e) THEN Unwrap(e.call).kind ELSE "none"

\* the message found its metadata cached and no downstream call failed
Settled(e) == e.outcome \in { "dedup", "ok" }

\* the value a downstream call tells the API to hold
ValueOfCall(kind) == IF kind = "insert" THEN "Faulting" ELSE "Clear"

\* the last event of a non-empty sequence
LastOf(es) == es[Len(es)]

\* no live entry: never written, or expired
Absent(cache, p, ttl) == p \notin DOMAIN cache \/ cache[p].age >= ttl

\* events i..j of es are deliveries of the same value v, each with metadata
\* cached and none failing; the run is counted from a delivery that does not
\* find v already cached
SameValueRun(es, i, j, v) ==
    /\ i <= j
    /\ \A k \in i..j : es[k].value = v /\ Settled(es[k])
    /\ es[i].prior # Some(v)

\* the state entry written during the run is still live at each later delivery
NoExpiryInRun(es, i, j) == \A k \in (i + 1)..j : es[k].prior # None

CallsInRun(es, i, j) == Cardinality({ k \in i..j : MadeCall(es[k]) })

\* a step in which task t takes a value message for path p
TakesValue(t, p) ==
    /\ pc[t] = "idle"
    /\ \/ pc'[t] = "compute" /\ cur'[t].path = Some(p)
       \/ pc' = pc /\ Len(log') = Len(log) + 1 /\ LastOf(log').path = Some(p)

\* the message taken in this step is dropped: it makes no downstream call
DroppedNow ==
    /\ pc' = pc
    /\ Len(log') = Len(log) + 1
    /\ ~MadeCall(LastOf(log'))

\* the last metadata message handled for path p had an unsupported point_type
LastMetadataUnsupported(p) ==
    p \in DOMAIN last_metadata /\ last_metadata[p].point_type \notin LeakPointTypes

----------------------------------------------------------------------------
(* Claims.                                                                 *)

\* C1 as stated: the same FaultValue delivered N >= 1 times in a row for one
\* path, metadata cached and no downstream failure, makes exactly one
\* downstream call.
C1_DedupLawAsStated ==
    \A p \in TwoPaths, v \in FaultValues :
        LET es == PathEvents(p)
        IN  \A i, j \in 1..Len(es) :
                SameValueRun(es, i, j, v) => CallsInRun(es, i, j) = 1

\* C1, amended: the same FaultValue delivered N >= 1 times in a row for one
\* path, metadata cached, no downstream failure and the state entry not
\* expiring between the deliveries, makes exactly one downstream call.
C1_DedupLaw ==
    \A p \in TwoPaths, v \in FaultValues :
        LET es == PathEvents(p)
        IN  \A i, j \in 1..Len(es) :
                SameValueRun(es, i, j, v) /\ NoExpiryInRun(es, i, j)
                    => CallsInRun(es, i, j) = 1

\* three deliveries of Faulting: one insert, then two deduplicated
C1_Witness ==
    LET es == PathEvents(PathA)
    IN  /\ Len(es) = 3
        /\ SameValueRun(es, 1, 3, "Faulting")
        /\ NoExpiryInRun(es, 1, 3)
        /\ es[3].outcome = "dedup"

\* C2: Faulting, Clear, Faulting for one path, metadata cached and the sink
\* succeeding, makes exactly the calls insert, remove, insert, in that order.
C2_TransitionLaw ==
    \A p \in TwoPaths :
        LET es == PathEvents(p)
        IN  \A i \in 1..Len(es) :
                ( /\ i + 2 <= Len(es)
                  /\ << es[i].value, es[i + 1].value, es[i + 2].value >>
                        = << "Faulting", "Clear", "Faulting" >>
                  /\ \A k \in i..(i + 2) : Settled(es[k])
                  /\ es[i].prior # Some("Faulting") )
                => << CallKind(es[i]), CallKind(es[i + 1]), CallKind(es[i + 2]) >>
                        = << "insert", "remove", "insert" >>

C2_Witness ==
    LET es == PathEvents(PathA)
    IN  /\ Len(es) = 3
        /\ << es[1].value, es[2].value, es[3].value >> = << "Faulting", "Clear", "Faulting" >>
        /\ \A k \in 1..3 : es[k].outcome = "ok"

\* C3: a value held by the state cache for a path is the value of the most
\* recent successful downstream call made for that path (Faulting for insert,
\* Clear for remove); there is no entry without such a call.
C3_CommitOnlyOnSuccess ==
    \A p \in DOMAIN value_state_cache :
        LET es  == PathEvents(p)
            oks == { k \in 1..Len(es) : es[k].outcome = "ok" }
        IN  /\ oks # { }
            /\ \E k \in oks :
                  /\ \A m \in oks : m <= k
                  /\ value_state_cache[p].value = ValueOfCall(CallKind(es[k]))

\* an insert succeeded, a later remove failed, the entry still says Faulting
C3_Witness ==
    LET es == PathEvents(PathA)
    IN  /\ Len(es) >= 2
        /\ LastOf(es).outcome = "err"
        /\ CallKind(LastOf(es)) = "remove"
        /\ CacheGet(value_state_cache, PathA, ValueStateTtl) = Some("Faulting")

\* the downstream call of task t returns Err in this step
FailureReturn(t) ==
    /\ pc[t] = "calling"
    /\ pc'[t] = "idle"
    /\ log'[cur[t].idx].outcome = "err"

\* C4: when the downstream call made for a value message fails, the state
\* cache is left exactly as it was (same entry if one was present, still
\* absent if none was).
C4_FailureLeavesState ==
    [][ \A t \in Tasks : FailureReturn(t) => value_state_cache' = value_state_cache ]_vars

\* a call failed for a path whose entry held the other value, and still does
C4_Witness ==
    /\ log # << >>
    /\ LastOf(log).outcome = "err"
    /\ LastOf(log).path = Some(PathA)
    /\ IsSome(LastOf(log).prior)
    /\ CacheGet(value_state_cache, PathA, ValueStateTtl) = LastOf(log).prior

\* C5 as stated: if the downstream call made for a value message on a path
\* fails, the state cache holds no value for that path afterward.
C5_FailureNoCommitAsStated ==
    \A p \in TwoPaths :
        LET es == PathEvents(p)
        IN  (es # << >> /\ LastOf(es).outcome = "err")
                => CacheGet(value_state_cache, p, ValueStateTtl) = None

\* C5, amended: if the downstream call made for a value message on a path
\* fails and the state cache held no value for that path when the message
\* was handled, it holds none afterward.
C5_FailureNoCommit ==
    \A p \in TwoPaths :
        LET es == PathEvents(p)
        IN  (es # << >> /\ LastOf(es).outcome = "err" /\ LastOf(es).prior = None)
                => CacheGet(value_state_cache, p, ValueStateTtl) = None

\* the first call for a path failed and nothing was ever stored for it
C5_Witness ==
    LET es == PathEvents(PathA)
    IN  /\ es # << >>
        /\ LastOf(es).outcome = "err"
        /\ LastOf(es).prior = None
        /\ PathA \notin DOMAIN value_state_cache

\* C6: after a failed downstream call for value v on path p, the next value
\* message for p carrying v, metadata still cached, makes a downstream call.
C6_RetryAfterFailure ==
    \A p \in TwoPaths :
        LET es == PathEvents(p)
        IN  \A k \in 1..Len(es) :
                ( /\ k + 1 <= Len(es)
                  /\ es[k].outcome = "err"
                  /\ es[k + 1].value = es[k].value
                  /\ es[k + 1].outcome \notin { "no_metadata", "unsupported" } )
                => MadeCall(es[k + 1])

\* a failed remove over a cached Faulting, and the retried remove
C6_Witness ==
    LET es == PathEvents(PathA)
    IN  /\ Len(es) = 3
        /\ es[1].outcome = "ok"
        /\ es[2].outcome = "err"
        /\ es[3].value = es[2].value
        /\ es[3].outcome = "ok"

\* C7: a value message for a path whose metadata entry is absent (never
\* written, or expired) makes no downstream call and leaves the state cache
\* unchanged.
C7_NoMetadataLaw ==
    [][ \A p \in TwoPaths :
            ( /\ Absent(metadata_cache, p, MetadataTtl)
              /\ \E t \in Tasks : TakesValue(t, p) )
            => /\ DroppedNow
               /\ LastOf(log').outcome = "no_metadata"
               /\ value_state_cache' = value_state_cache ]_vars

\* a call was made for a path, and a later message found its metadata expired
C7_Witness ==
    LET es == PathEvents(PathA)
    IN  /\ Len(es) >= 2
        /\ es[1].outcome = "ok"
        /\ LastOf(es).outcome = "no_metadata"
        /\ PathA \in DOMAIN metadata_cache
        /\ metadata_cache[PathA].age >= MetadataTtl

\* C8: every entry of the metadata cache has a supported point_type.
C8_OnlySupportedCached ==
    \A p \in DOMAIN metadata_cache :
        metadata_cache[p].value.point_type \in LeakPointTypes

\* unsupported metadata was handled for a path that has no entry
C8_Witness ==
    /\ LastMetadataUnsupported(PathA)
    /\ PathA \notin DOMAIN metadata_cache

\* C9 as stated: once a metadata message with an unsupported point_type was
\* the last one handled for a path, a value message for that path makes no
\* downstream call, whatever was handled for the path before.
C9_UnsupportedLawAsStated ==
    [][ \A p \in TwoPaths :
            (LastMetadataUnsupported(p) /\ \E t \in Tasks : TakesValue(t, p))
                => DroppedNow ]_vars

\* C9, amended: a metadata message with an unsupported point_type is not
\* cached and leaves the entry of its path as it was, so a following value
\* message for that path makes no downstream call exactly when no supported
\* metadata is cached for the path (never written, or expired).
C9_UnsupportedLaw ==
    [][ \A p \in TwoPaths :
            (LastMetadataUnsupported(p) /\ \E t \in Tasks : TakesValue(t, p))
                => (DroppedNow <=> Absent(metadata_cache, p, MetadataTtl)) ]_vars

\* unsupported metadata came last for a path whose supported metadata is
\* still cached, and a value message for the path is making its call
C9_Witness ==
    /\ LastMetadataUnsupported(PathA)
    /\ ~Absent(metadata_cache, PathA, MetadataTtl)
    /\ pc[RunTask] = "calling"
    /\ cur[RunTask].path = Some(PathA)

\* C10: no two update functions for the same sensor path are in progress at
\* the same instant.
C10_PerKeyMutualExclusion ==
    \A t, u \in Tasks :
        (t # u /\ pc[t] = "calling" /\ pc[u] = "calling") => cur[t].path # cur[u].path

\* one task is inside the update function of a path, the other waits for it
C10_Witness ==
    \E t, u \in Tasks :
        /\ pc[t] = "calling"
        /\ pc[u] = "compute"
        /\ cur[t].path = cur[u].path

\* the update function of another task is in progress for the same path
SamePathInFlight(t) ==
    \E u \in Tasks \ { t } : pc[u] = "calling" /\ cur[u].path = cur[t].path

\* C11: while a compound update for one path is in flight, a compound update
\* for a different path can start, make its downstream call and commit: a
\* task whose path has no update in flight is never made to wait, whatever
\* is in flight for other paths.
C11_CrossKeyIndependence ==
    \A t \in Tasks :
        /\ (pc[t] = "compute" /\ ~SamePathInFlight(t)) => ENABLED UpdateFn(t)
        /\ pc[t] = "calling" => ENABLED CallReturns(t, TRUE)

\* the call for path A is still in flight; the update for path B started
\* after it, made its call and committed
C11_Witness ==
    /\ Len(log) = 2
    /\ log[1].path = Some(PathA) /\ log[1].outcome = "pending"
    /\ log[2].path = Some(PathB) /\ log[2].outcome = "ok"
    /\ CacheGet(value_state_cache, PathB, ValueStateTtl) = Some(log[2].value)

\* the rack id a downstream call was made with
CallRack(e) == Unwrap(e.call).rack_id

\* a Faulting value handled with metadata cached, the state cache not
\* holding Faulting already, and no downstream failure
FaultingSettled(e) ==
    e.value = "Faulting" /\ Settled(e) /\ e.prior # Some("Faulting")

\* C12: with metadata cached for two paths that name two racks and a
\* succeeding sink, a Faulting value on each path makes exactly two inserts,
\* one per rack, each with the rack id of its own path, whatever the order
\* or interleaving of the two value messages.
C12_IndependenceLaw ==
    \A i, j \in 1..Len(log) :
        ( /\ log[i].path = Some(PathA) /\ FaultingSettled(log[i])
          /\ log[j].path = Some(PathB) /\ FaultingSettled(log[j]) )
        => /\ CallKind(log[i]) = "insert" /\ CallRack(log[i]) = RackOf(PathA)
           /\ CallKind(log[j]) = "insert" /\ CallRack(log[j]) = RackOf(PathB)
           /\ Cardinality({ k \in { i, j } : CallKind(log[k]) = "insert" }) = 2

\* both inserts succeeded, and they overlapped: the insert for path A
\* started first and the insert for path B was committed first
C12_Witness ==
    /\ Len(log) = 2
    /\ \A k \in 1..2 : log[k].outcome = "ok" /\ log[k].value = "Faulting"
    /\ log[1].path = Some(PathA) /\ CallRack(log[1]) = "rack-001"
    /\ log[2].path = Some(PathB) /\ CallRack(log[2]) = "rack-002"
    /\ value_state_cache[PathB].age > value_state_cache[PathA].age

\* a value message taken and not yet resolved
Unresolved(t) == pc[t] \in { "compute", "calling", "returned" }

\* C13: under run() a message is taken from the inbound stream only after
\* the previous one is fully resolved: at most one message is in progress and
\* at most one downstream call outstanding at any instant, and whatever is
\* queued behind a message in progress stays queued.
C13_StrictlySequential ==
    /\ Cardinality({ t \in Tasks : Unresolved(t) }) <= 1
    /\ Cardinality({ k \in 1..Len(log) : log[k].outcome = "pending" }) <= 1
    /\ \A k \in 1..Len(log) : log[k].outcome = "pending" => k = Len(log)
    /\ sent = taken \o rx

\* a downstream call is outstanding while the next value message waits in
\* the queue
C13_Witness ==
    /\ pc[RunTask] = "calling"
    /\ rx # << >>
    /\ rx[1].kind = "Value"
    /\ rx[1].topic \in ValueTopics(OnePath)

\* run() has returned
Stopped == pc[RunTask] = "stopped"

\* C14: once the inbound channel is closed by its owner, and every
\* downstream call returns, run() processes every message that was queued, in
\* the order sent, and then terminates.
C14_GracefulShutdown ==
    closed ~> ( /\ Stopped
                /\ taken = sent
                /\ \A k \in 1..Len(log) : log[k].outcome # "pending" )

\* the channel was closed behind a metadata message and a Faulting value;
\* run() handled both, made the insert, and returned
C14_Witness ==
    /\ Stopped
    /\ Len(taken) = 2
    /\ taken = sent
    /\ taken[1].kind = "Metadata"
    /\ taken[2].kind = "Value"
    /\ Len(log) = 1
    /\ CallKind(log[1]) = "insert"
    /\ log[1].outcome = "ok"

\* every message sent has been taken and its handler has returned
Drained == rx = << >> /\ \A t \in Tasks : ~Unresolved(t)

\* C15: no error stops the processor.  run() returns only when the inbound
\* stream has been closed, and every queued message is taken and processed,
\* whatever happened to the messages before it (downstream failure,
\* unextractable topic, correlation miss, unsupported metadata).
C15_NoErrorStops ==
    /\ [](Stopped => closed)
    /\ (rx # << >>) ~> Drained

\* the insert failed, the value message behind it was taken and dropped for
\* its topic, and run() is still receiving from the open channel
C15_Witness ==
    /\ ~closed
    /\ ~Stopped
    /\ Len(taken) = 3
    /\ Len(log) = 2
    /\ log[1].outcome = "err"
    /\ log[2].outcome = "no_path"

\* task t enters its update function and makes a downstream call in this step
StartsCall(t) == pc[t] = "compute" /\ pc'[t] = "calling"

\* C16: every downstream call caused by a value message is an insert if and
\* only if the value is Faulting and a remove if and only if it is Clear, and
\* its rack id is the rack_id of the metadata cached for the path when the
\* value message is handled: the handler looks the metadata up when it takes
\* the message, a live entry, and makes the call with what it found, also
\* when the entry expires before the update function runs.
C16_CallMatchesValue ==
    [][ \A t \in Tasks :
            /\ \A p \in TwoPaths :
                  ( TakesValue(t, p) /\ pc'[t] = "compute" ) =>
                      /\ ~Absent(metadata_cache, p, MetadataTtl)
                      /\ cur'[t].metadata = Some(metadata_cache[p].value)
            /\ ( pc[t] = "compute" /\ pc'[t] = "compute" ) => cur'[t] = cur[t]
            /\ StartsCall(t) =>
                  LET e == LastOf(log')
                  IN  /\ e.path = cur[t].path
                      /\ CallKind(e) = "insert" <=> e.value = "Faulting"
                      /\ CallKind(e) = "remove" <=> e.value = "Clear"
                      /\ CallRack(e) = Unwrap(cur[t].metadata).rack_id ]_vars

\* an insert was made with one rack; the metadata of the path was rewritten
\* and the remove is being made with the other rack
C16_Witness ==
    /\ Len(log) = 2
    /\ log[1].value = "Faulting" /\ CallKind(log[1]) = "insert"
    /\ log[2].value = "Clear" /\ CallKind(log[2]) = "remove"
    /\ log[2].outcome = "pending"
    /\ CallRack(log[1]) # CallRack(log[2])

\* task t leaves the "compute" position: its update function runs
RunsUpdateFn(t) == pc[t] = "compute" /\ pc'[t] # "compute"

\* the downstream call of task t for path p returns Ok in this step
SuccessReturn(t, p) ==
    /\ pc[t] = "calling"
    /\ pc'[t] = "returned"
    /\ cur[t].path = Some(p)
    /\ log'[cur[t].idx].outcome = "ok"

\* the clock of the entry of key p restarts in this step
ClockRestarts(cache, cacheAfter, p) ==
    /\ p \in DOMAIN cacheAfter
    /\ p \notin DOMAIN cache \/ cacheAfter[p].age < cache[p].age

\* C17: state entries expire by the time since their last successful write
\* only.  The clock of an entry restarts only when a downstream call for its
\* path succeeds; a dedup-skip leaves the entry and its clock as they are;
\* and once value_state_ttl has elapsed since the last commit the entry
\* behaves as absent: a value message for the path, the same value included,
\* makes a downstream call.
C17_StateExpiry ==
    [][ /\ \A t \in Tasks :
              RunsUpdateFn(t) =>
                  /\ pc'[t] = "returned" => value_state_cache' = value_state_cache
                  /\ Absent(value_state_cache, Unwrap(cur[t].path), ValueStateTtl)
                        => StartsCall(t)
        /\ \A p \in TwoPaths :
              ClockRestarts(value_state_cache, value_state_cache', p)
                  => \E t \in Tasks : SuccessReturn(t, p) ]_vars

\* Faulting committed, Faulting again deduplicated, and after the entry
\* expired Faulting a third time makes a new insert
C17_Witness ==
    LET es == PathEvents(PathA)
    IN  /\ Len(es) = 3
        /\ \A k \in 1..3 : es[k].value = "Faulting"
        /\ es[1].outcome = "ok"
        /\ es[2].outcome = "dedup"
        /\ es[3].prior = None
        /\ CallKind(es[3]) = "insert"
        /\ value_state_cache[PathA].value = "Faulting"
        /\ value_state_cache[PathA].age >= ValueStateTtl

\* run() takes a metadata message in this step
TakesMetadataMessage ==
    /\ Len(taken') = Len(taken) + 1
    /\ LastOf(taken').kind = "Metadata"

\* C18: metadata entries expire by the time since their last write, not
\* their last read.  The clock of an entry restarts only when a metadata
\* message is handled; handling a value message leaves the metadata cache as
\* it is; and a value message handled when metadata_ttl has elapsed since the
\* last metadata message for its path makes no downstream call.
C18_MetadataExpiry ==
    [][ /\ \A p \in TwoPaths :
              ClockRestarts(metadata_cache, metadata_cache', p) => TakesMetadataMessage
        /\ \A p \in TwoPaths, t \in Tasks :
              TakesValue(t, p) =>
                  /\ metadata_cache' = metadata_cache
                  /\ Absent(metadata_cache, p, MetadataTtl) => DroppedNow ]_vars

\* one metadata message, a value message that read the entry and made its
\* call, and after the entry expired a value message that is dropped
C18_Witness ==
    /\ Len(taken) = 3
    /\ taken[1].kind = "Metadata"
    /\ taken[2].kind = "Value"
    /\ taken[3].kind = "Value"
    /\ Len(log) = 2
    /\ MadeCall(log[1])
    /\ log[2].outcome = "no_metadata"
    /\ metadata_cache[PathA].age >= MetadataTtl

\* C19: metadata is last-write-wins.  After supported metadata messages M1
\* and then M2 for one path the metadata cache holds M2, and a downstream
\* call made by a following value message targets the rack_id of M2.
C19_LastWriteWins ==
    \A p \in DOMAIN last_metadata :
        ~LastMetadataUnsupported(p) =>
            /\ p \in DOMAIN metadata_cache
            /\ metadata_cache[p].value = last_metadata[p]
            /\ \A t \in Tasks :
                  (pc[t] = "calling" /\ cur[t].path = Some(p))
                      => CallRack(log[cur[t].idx]) = last_metadata[p].rack_id

\* a call was made with the rack of M1; M2 names another rack, is cached, and
\* the call of the following value message is being made with the rack of M2
C19_Witness ==
    /\ Len(log) = 2
    /\ MadeCall(log[1])
    /\ CallRack(log[1]) = "rack-001"
    /\ PathA \in DOMAIN last_metadata
    /\ last_metadata[PathA].rack_id = "rack-002"
    /\ pc[RunTask] = "calling"
    /\ CallRack(log[2]) = "rack-002"

\* the events of path p in a log l
PathEventsOf(l, p) == SelectSeq(l, LAMBDA e : e.path = Some(p))

\* the value the downstream was last told for the path of the events es:
\* that of the most recent successful call, None if there is none
LastTold(es) ==
    LET oks == { k \in 1..Len(es) : es[k].outcome = "ok" }
    IN  IF oks = { } THEN None
        ELSE Some(ValueOfCall(CallKind(es[CHOOSE k \in oks : \A m \in oks : m <= k])))

\* a downstream call for path p has failed
HasFailed(p) == \E k \in 1..Len(log) : log[k].path = Some(p) /\ log[k].outcome = "err"

\* the value message of task t for path p is resolved in this step without a
\* downstream failure: deduplicated, or its call returns Ok
SettlesNow(t, p) ==
    /\ cur[t].path = Some(p)
    /\ \/ pc[t] = "compute" /\ pc'[t] = "returned"
       \/ SuccessReturn(t, p)

\* the first message in the queue is a value message for path p
ValueQueuedFor(p) ==
    /\ rx # << >>
    /\ rx[1].kind = "Value"
    /\ ExtractPointPath(rx[1].topic, TopicPrefix) = Some(p)

\* C20: self-healing after a downstream failure.  If a downstream call for
\* path p failed and later a value message v for p is handled with metadata
\* cached and without a downstream failure, then after that message the state
\* cache holds v for p and v is what the downstream was last told.  A failure
\* blocks nothing: a value message for p queued behind it is eventually taken
\* and resolved (the owner of the channel sends finitely many messages, so
\* the queue is eventually drained).
C20_SelfHealing ==
    /\ [][ \A t \in Tasks, p \in TwoPaths :
              (HasFailed(p) /\ SettlesNow(t, p)) =>
                  /\ ~Absent(value_state_cache', p, ValueStateTtl)
                  /\ value_state_cache'[p].value = cur[t].value
                  /\ LastTold(PathEventsOf(log', p)) = Some(cur[t].value) ]_vars
    /\ \A p \in OnePath :
          (HasFailed(p) /\ ValueQueuedFor(p)) ~> Drained

\* an insert succeeded and the remove failed; the next Clear for the path
\* made the remove again, it succeeded and the state cache holds Clear
C20_Witness ==
    /\ Len(log) = 3
    /\ \A k \in 1..3 : log[k].path = Some(PathA)
    /\ log[1].outcome = "ok"
    /\ log[2].outcome = "err"
    /\ log[3].outcome = "ok"
    /\ log[3].value = "Clear"
    /\ CacheGet(value_state_cache, PathA, ValueStateTtl) = Some("Clear")
    /\ LastTold(PathEvents(PathA)) = Some("Clear")

\* string s ends with e; string s starts with a
EndsWith(s, e) == Len(s) >= Len(e) /\ SubSeq(s, Len(s) - Len(e) + 1, Len(s)) = e

StartsWith(s, a) == Len(s) >= Len(a) /\ SubSeq(s, 1, Len(a)) = a

\* s without its last n characters
DropLast(s, n) == SubSeq(s, 1, Len(s) - n)

\* C21: for every prefix and path, extract_point_path(prefix + path +
\* "/Value", prefix) and extract_point_path(prefix + path + "/Metadata",
\* prefix) return path; a topic that ends in neither suffix, or that does not
\* start with the prefix once the suffix is stripped, returns no path.
C21_PathExtraction ==
    Returned =>
        LET topic  == pure_call.args[1]
            prefix == pure_call.args[2]
            result == pure_call.result[1]
        IN  /\ \A suffix \in { SuffixValue, SuffixMetadata } :
                  /\ \A n \in 0..Len(topic) :
                        Len(prefix) + n <= Len(topic) =>
                            LET path == SubSeq(topic, Len(prefix) + 1, Len(prefix) + n)
                            IN  topic = prefix \o path \o suffix => result = Some(path)
                  /\ (EndsWith(topic, suffix)
                         /\ ~StartsWith(DropLast(topic, Len(suffix)), prefix))
                        => result = None
            /\ (~EndsWith(topic, SuffixValue) /\ ~EndsWith(topic, SuffixMetadata))
                  => result = None

\* the path itself ends in "/Value": the topic c/a/Value/Metadata gives
\* the path a/Value
C21_Witness ==
    /\ pure_call.args = << TopicPrefix \o PathA \o SuffixValue \o SuffixMetadata, TopicPrefix >>
    /\ pure_call.result = << Some(PathA \o SuffixValue) >>

\* C22: decoding a FaultValue gives Clear for the integer 0 and the float
\* 0.0, Faulting for the integer 1 and the float 1.0, and for every other
\* number a decode error that is returned to the caller.
C22_DecodeBoundary ==
    Returned =>
        LET n      == pure_call.args[1]
            result == pure_call.result[1]
        IN  /\ n.halves = 0 => result = Ok("Clear")
            /\ (~n.neg /\ n.halves = 2) => result = Ok("Faulting")
            /\ (n.halves # 0 /\ (n.neg \/ n.halves # 2)) => result[1] = "Err"

\* 0.5 was decoded, and the decoder returned an error
C22_Witness ==
    /\ pure_call.args = << [ neg |-> FALSE, halves |-> 1, float |-> TRUE ] >>
    /\ pure_call.result = << Err("invalid binary value") >>

\* the probe id the leak-point-type table gives
ExpectedProbeId(leak_type) ==
    IF leak_type = "LeakDetectRack" THEN "BmsLeakDetectRack"
    ELSE IF leak_type = "LeakSensorFaultRack" THEN "BmsLeakSensorFaultRack"
    ELSE "BmsLeakDetectRackTray"

\* C23: for every metadata and every leak point type the report built has
\* exactly one alert, whose id is the probe id of the type, whose target is
\* the rack_id of the metadata and whose classifications are exactly
\* PreventAllocations, SensorCritical, Hardware; its successes are empty and
\* its source is "dsx-exchange-consumer".
C23_ReportBuilder ==
    Returned =>
        LET metadata  == pure_call.args[1]
            leak_type == pure_call.args[2]
            report    == pure_call.result[1]
        IN  /\ Len(report.alerts) = 1
            /\ report.alerts[1].id = ExpectedProbeId(leak_type)
            /\ report.alerts[1].target = Some(metadata.rack_id)
            /\ report.alerts[1].classifications
                  = << "PreventAllocations", "SensorCritical", "Hardware" >>
            /\ report.successes = << >>
            /\ report.source = "dsx-exchange-consumer"

\* the report for a sensor fault on rack-002
C23_Witness ==
    /\ Returned
    /\ pure_call.args = << TestMetadata("LeakSensorFaultRack", "rack-002"), "LeakSensorFaultRack" >>
    /\ pure_call.result[1].alerts[1].id = "BmsLeakSensorFaultRack"
    /\ pure_call.result[1].alerts[1].target = Some("rack-002")

\* downstream calls made so far, and value messages run() has taken so far
CallsMade == Cardinality({ k \in 1..Len(log) : MadeCall(log[k]) })

ValuesTaken == Cardinality({ k \in 1..Len(taken) : taken[k].kind = "Value" })

\* C24: no internal retry.  Each value message causes at most one downstream
\* call, a metadata message causes none, and after a failed call no further
\* downstream call is made until another value message is handled.
C24_NoInternalRetry ==
    [][ /\ TakesMetadataMessage => (log' = log /\ pc' = pc)
        /\ \A t \in Tasks :
              /\ StartsCall(t) => CallsMade < ValuesTaken
              /\ FailureReturn(t) => (\A u \in Tasks : ~Unresolved(u)')
              /\ (pc[t] = "idle" /\ Unresolved(t)') => Len(taken') = Len(taken) + 1 ]_vars

\* a downstream call failed, a metadata message was handled after it, and
\* the failed call is still the only call made
C24_Witness ==
    /\ Len(taken) = 3
    /\ taken[2].kind = "Value"
    /\ taken[3].kind = "Metadata"
    /\ Len(log) = 1
    /\ log[1].outcome = "err"
    /\ \A t \in Tasks : pc[t] = "idle"

\* events i and j of es carry two consecutive downstream calls: none between
ConsecutiveCalls(es, i, j) ==
    /\ i < j
    /\ MadeCall(es[i])
    /\ MadeCall(es[j])
    /\ \A k \in (i + 1)..(j - 1) : ~MadeCall(es[k])

\* C25: exactly once per transition.  For one path, with metadata cached at
\* every delivery, no expiry of the state entry and no downstream failure,
\* any two consecutive downstream calls differ in kind: insert and remove
\* strictly alternate, whatever the sequence of values and however often a
\* value is delivered again.
C25_OncePerTransition ==
    \A p \in TwoPaths :
        LET es == PathEvents(p)
        IN  \A i, j \in 1..Len(es) :
                ( /\ ConsecutiveCalls(es, i, j)
                  /\ \A k \in i..j : Settled(es[k])
                  /\ NoExpiryInRun(es, i, j) )
                => CallKind(es[i]) # CallKind(es[j])

\* Faulting made the insert, Faulting delivered again made no call, Clear
\* made the remove
C25_Witness ==
    LET es == PathEvents(PathA)
    IN  /\ Len(es) = 3
        /\ << es[1].value, es[2].value, es[3].value >> = << "Faulting", "Faulting", "Clear" >>
        /\ << es[1].outcome, es[2].outcome, es[3].outcome >> = << "ok", "dedup", "ok" >>
        /\ << CallKind(es[1]), CallKind(es[3]) >> = << "insert", "remove" >>

\* tasks t and u are handling value messages with the same value for the
\* same path: t is making the downstream call, u has looked up the metadata
ConcurrentDuplicates(t, u) ==
    /\ t # u
    /\ pc[t] = "calling"
    /\ pc[u] = "compute"
    /\ cur[t].path = cur[u].path
    /\ cur[t].value = cur[u].value

\* the state cache holds value v for path p, and the entry is live
Holds(cache, p, v) == ~Absent(cache, p, ValueStateTtl) /\ cache[p].value = v

\* task t has made the downstream call of its value message and the call
\* has returned Ok: the value is committed and the key released, and t is
\* still in its handler
CallSucceeded(t) ==
    /\ pc[t] = "returned"
    /\ MadeCall(log[cur[t].idx])
    /\ log[cur[t].idx].outcome = "ok"

\* the update function of task u runs in this step and deduplicates: no
\* downstream call is made
Deduplicated(u) ==
    /\ RunsUpdateFn(u)
    /\ pc'[u] = "returned"
    /\ LastOf(log').outcome = "dedup"
    /\ LastOf(log').prior = Some(cur[u].value)
    /\ CallsMade' = CallsMade

\* C26 as stated: when two producers concurrently handle value messages with
\* the same value for the same path, metadata cached, state absent or
\* different and the sink succeeding, exactly one downstream call is made
\* and the other message is deduplicated against the committed value: the
\* second producer makes no call while the first call is in flight, and
\* when its update function runs after that call has returned Ok, the first
\* producer still being in its handler, it is deduplicated.
C26_ConcurrentDuplicatesAsStated ==
    [][ \A t, u \in Tasks :
            /\ ConcurrentDuplicates(t, u) => ~RunsUpdateFn(u)
            /\ ( /\ t # u
                 /\ CallSucceeded(t)
                 /\ pc[u] = "compute"
                 /\ cur[u].path = cur[t].path
                 /\ cur[u].value = cur[t].value
                 /\ RunsUpdateFn(u) )
                  => Deduplicated(u) ]_vars

\* C26, amended: when two producers concurrently handle value messages with
\* the same value for the same path, metadata cached and the sink
\* succeeding, the second producer makes no call while the first call is in
\* flight and finds the value committed when that call returns Ok; if the
\* committed entry is still live when the update function of the second
\* producer runs, that message is deduplicated against it and makes no
\* call, so that of two successive messages with the same value for a path,
\* the second finding a live entry, exactly one makes a downstream call.
C26_ConcurrentDuplicates ==
    /\ [][ \A t, u \in Tasks :
              /\ ConcurrentDuplicates(t, u) =>
                    /\ ~RunsUpdateFn(u)
                    /\ SuccessReturn(t, Unwrap(cur[t].path))
                          => Holds(value_state_cache', Unwrap(cur[u].path), cur[u].value)
              /\ ( /\ RunsUpdateFn(u)
                   /\ Holds(value_state_cache, Unwrap(cur[u].path), cur[u].value) )
                    => Deduplicated(u) ]_vars
    /\ [](\A p \in TwoPaths :
            LET es == PathEvents(p)
            IN  \A i \in 1..(Len(es) - 1) :
                    ( /\ es[i].value = es[i + 1].value
                      /\ Settled(es[i]) /\ Settled(es[i + 1])
                      /\ es[i].prior # Some(es[i].value)
                      /\ es[i + 1].prior # None )
                    => /\ MadeCall(es[i])
                       /\ ~MadeCall(es[i + 1])
                       /\ es[i + 1].prior = Some(es[i].value))

\* both producers handled Faulting for path A and are still in their
\* handlers: the insert of one has returned Ok, the other was deduplicated
\* against the committed value, and one downstream call was made
C26_Witness ==
    \E t, u \in Tasks :
        /\ t # u
        /\ CallSucceeded(t)
        /\ pc[u] = "returned"
        /\ cur[t].path = Some(PathA) /\ cur[u].path = Some(PathA)
        /\ cur[t].value = "Faulting" /\ cur[u].value = "Faulting"
        /\ Len(log) = 2
        /\ log[1].prior = None /\ CallKind(log[1]) = "insert"
        /\ log[2].outcome = "dedup" /\ log[2].prior = Some("Faulting")
        /\ cur[u].idx = 2
        /\ CallsMade = 1

\* C27: an absent state entry never deduplicates.  When the update function
\* runs for a path whose state entry is absent (never committed, not
\* committed by a failed call, or expired), it makes exactly one downstream
\* call, an insert for Faulting and a remove for Clear, whether or not an
\* insert was ever made for the path.
C27_AbsentNeverDeduplicates ==
    [][ \A t \in Tasks :
            ( /\ RunsUpdateFn(t)
              /\ Absent(value_state_cache, Unwrap(cur[t].path), ValueStateTtl) )
            => /\ StartsCall(t)
               /\ CallsMade' = CallsMade + 1
               /\ LastOf(log').prior = None
               /\ CallKind(LastOf(log')) =
                      IF cur[t].value = "Faulting" THEN "insert" ELSE "remove" ]_vars

\* the first value handled for path A is Clear: a remove was made and has
\* returned Ok, and no insert was ever made
C27_Witness ==
    /\ Len(log) = 1
    /\ log[1].path = Some(PathA)
    /\ log[1].value = "Clear"
    /\ log[1].prior = None
    /\ log[1].outcome = "ok"
    /\ CallKind(log[1]) = "remove"

\* the positions in the log of the downstream calls that returned Ok
OkCalls == { k \in 1..Len(log) : log[k].outcome = "ok" /\ MadeCall(log[k]) }

\* the greatest element of a non-empty set of positions
Latest(ks) == CHOOSE k \in ks : \A m \in ks : m <= k

\* the successful inserts made for path p
OkInserts(p) == { k \in OkCalls : log[k].path = Some(p) /\ CallKind(log[k]) = "insert" }

\* the successful calls that targeted rack r
OkCallsOn(r) == { k \in OkCalls : CallRack(log[k]) = r }

\* C28: rack-level consistency.  In every reachable state, if the state
\* cache holds Faulting for a path whose insert targeted rack R, the most
\* recent successful downstream call targeting R was an insert, also when
\* several sensor paths name the same rack and one of them reports Clear.
\* (One task handles the messages, so the calls return in the order of the
\* log.)
C28_RackConsistency ==
    \A p \in TwoPaths :
        ( Holds(value_state_cache, p, "Faulting") /\ OkInserts(p) # {} )
        => LET r == CallRack(log[Latest(OkInserts(p))])
           IN  CallKind(log[Latest(OkCallsOn(r))]) = "insert"

\* the successful inserts made for the path of log[k] before log[k]
OkInsertsBefore(k) ==
    { i \in OkCalls : i < k /\ log[i].path = log[k].path /\ CallKind(log[i]) = "insert" }

\* C29: a remove issued for a path targets the same rack as the most recent
\* successful insert issued for that path, also when the metadata of the path
\* was overwritten with another rack_id in between.
C29_RemoveTargetsInsertRack ==
    \A k \in 1..Len(log) :
        ( CallKind(log[k]) = "remove" /\ OkInsertsBefore(k) # {} )
        => CallRack(log[k]) = CallRack(log[Latest(OkInsertsBefore(k))])

\* a message is taken from the channel in this step, and no path can be
\* extracted from its topic
TakesUnextractable ==
    /\ Len(taken') = Len(taken) + 1
    /\ ~IsSome(ExtractPointPath(LastOf(taken').topic, TopicPrefix))

\* C30: a message, metadata or value, whose topic fails path extraction is
\* dropped: handling it starts no downstream call and leaves the metadata
\* cache and the state cache as they are.
C30_UnextractableDropped ==
    [][ TakesUnextractable =>
            /\ metadata_cache' = metadata_cache
            /\ value_state_cache' = value_state_cache
            /\ pc' = pc
            /\ CallsMade' = CallsMade
            /\ LastOf(taken').kind = "Value" => DroppedNow ]_vars

\* metadata that names rack-001 is cached for path A; a metadata message
\* that names rack-002 and a value message were then taken from topics with
\* no extractable path, and the entry still names rack-001
C30_Witness ==
    /\ Len(taken) = 3
    /\ taken[1].kind = "Metadata" /\ taken[1].topic \in MetadataTopics(OnePath)
    /\ taken[2].kind = "Metadata" /\ taken[2].topic \in BadMetadataTopics
    /\ taken[2].metadata = Some(RackMetadata(PathB))
    /\ taken[3].kind = "Value" /\ taken[3].topic \in BadValueTopics
    /\ DOMAIN metadata_cache = { PathA }
    /\ metadata_cache[PathA].value = RackMetadata(PathA)
    /\ value_state_cache = << >>
    /\ Len(log) = 1 /\ log[1].outcome = "no_path"

\* the cache holds the same entries, none written: at most their ages grew
OnlyAged(cache, cacheAfter) ==
    /\ DOMAIN cacheAfter = DOMAIN cache
    /\ \A k \in DOMAIN cache :
          /\ cacheAfter[k].value = cache[k].value
          /\ cacheAfter[k].age >= cache[k].age

\* a value message is being handled in this step: it is taken from the
\* channel, its update function runs, or its downstream call returns
HandlesValueMessage ==
    \/ Len(taken') = Len(taken) + 1 /\ LastOf(taken').kind = "Value"
    \/ \E t \in Tasks : RunsUpdateFn(t)
    \/ \E t \in Tasks : pc[t] = "calling" /\ pc'[t] # "calling"
    \/ \E t \in Tasks : pc[t] = "returned" /\ pc'[t] # "returned"

\* C31: cache write independence.  The metadata cache is written only when a
\* supported metadata message is handled, the state cache only when the
\* downstream call of a value message returns Ok; apart from that the
\* entries only age.  Handling a metadata message leaves the state cache as
\* it is, and handling a value message leaves the metadata cache as it is.
C31_CacheWriteIndependence ==
    [][ /\ ~OnlyAged(metadata_cache, metadata_cache')
              => /\ TakesMetadataMessage
                 /\ Unwrap(LastOf(taken').metadata).point_type \in LeakPointTypes
        /\ ~OnlyAged(value_state_cache, value_state_cache')
              => \E t \in Tasks, p \in TwoPaths : SuccessReturn(t, p)
        /\ TakesMetadataMessage => value_state_cache' = value_state_cache
        /\ HandlesValueMessage => metadata_cache' = metadata_cache ]_vars

\* Faulting was committed for path A, time passed, and a second metadata
\* message restarted the clock of the metadata entry only
C31_Witness ==
    /\ Len(taken) = 3
    /\ taken[3].kind = "Metadata"
    /\ Len(log) = 1 /\ log[1].outcome = "ok"
    /\ PathA \in DOMAIN metadata_cache /\ PathA \in DOMAIN value_state_cache
    /\ value_state_cache[PathA].value = "Faulting"
    /\ metadata_cache[PathA].age = 0
    /\ value_state_cache[PathA].age > 0

\* C32: correlation is by exact sensor path.  A value message for path p is
\* handled with the metadata cached by a metadata topic of the same path p,
\* and is dropped when p has no live metadata entry, whatever is cached for
\* another path; it is deduplicated only against the state entry of p; and
\* the call it makes targets the rack that the metadata of p names.
C32_ExactPathCorrelation ==
    [][ \A t \in Tasks, p \in TwoPaths :
            /\ TakesValue(t, p) =>
                  IF Absent(metadata_cache, p, MetadataTtl)
                  THEN DroppedNow
                  ELSE /\ pc'[t] = "compute"
                       /\ cur'[t].metadata = Some(metadata_cache[p].value)
            /\ ( RunsUpdateFn(t) /\ cur[t].path = Some(p) ) =>
                  IF Holds(value_state_cache, p, cur[t].value)
                  THEN pc'[t] = "returned" /\ LastOf(log').outcome = "dedup"
                  ELSE /\ StartsCall(t)
                       /\ LastOf(log').path = Some(p)
                       /\ CallRack(LastOf(log')) = RackOf(p) ]_vars

\* metadata and Faulting are cached for path B; a Faulting value for path A,
\* which has no metadata, is dropped
C32_Witness ==
    /\ Len(log) = 2
    /\ log[1].path = Some(PathB) /\ log[1].outcome = "ok"
    /\ log[1].value = "Faulting" /\ CallRack(log[1]) = "rack-002"
    /\ log[2].path = Some(PathA) /\ log[2].outcome = "no_metadata"
    /\ log[2].value = "Faulting"
    /\ PathA \notin DOMAIN metadata_cache
    /\ Holds(value_state_cache, PathB, "Faulting")

\* the value messages taken from the channel, in the order of arrival
ValueMessagesTaken == SelectSeq(taken, LAMBDA m : m.kind = "Value")

\* C33: arrival order is preserved under run().  The value messages are
\* resolved, and their downstream calls made, in the order in which they
\* were taken from the channel, and a call is made for a later message only
\* when every call made for an earlier one has returned.
C33_ArrivalOrder ==
    LET vs == ValueMessagesTaken
    IN  /\ Len(log) <= Len(vs)
        /\ \A k \in 1..Len(log) :
              /\ log[k].topic = vs[k].topic
              /\ log[k].value = Unwrap(vs[k].value)
        /\ \A i, j \in 1..Len(log) :
              ( i < j /\ MadeCall(log[i]) /\ MadeCall(log[j]) )
              => log[i].outcome \in { "ok", "err" }

\* Faulting arrived before Clear: the insert was made first and has
\* returned, the remove is in flight
C33_Witness ==
    /\ Len(ValueMessagesTaken) = 2
    /\ ValueMessagesTaken[1].value = Some("Faulting")
    /\ ValueMessagesTaken[2].value = Some("Clear")
    /\ Len(log) = 2
    /\ CallKind(log[1]) = "insert" /\ log[1].outcome \in { "ok", "err" }
    /\ CallKind(log[2]) = "remove" /\ log[2].outcome = "pending"

\* C34: is_supported_leak_type and leak_point_type agree on the point_type
\* of every metadata message handled, supported exactly when a LeakPointType
\* is returned; so every cached metadata has a LeakPointType, and no value
\* message is dropped for an unsupported leak type in cached metadata.
C34_SupportAgrees ==
    /\ \A p \in DOMAIN last_metadata :
          IsSupportedLeakType(last_metadata[p]) <=> IsSome(LeakPointType(last_metadata[p]))
    /\ \A p \in DOMAIN metadata_cache :
          IsSome(LeakPointType(metadata_cache[p].value))
    /\ \A k \in 1..Len(log) : log[k].outcome # "unsupported"

\* metadata of the rack tray type was cached and a value message made its
\* call with it; a metadata message whose point_type differs from a
\* supported one by case only was then ignored
C34_Witness ==
    /\ PathA \in DOMAIN metadata_cache
    /\ metadata_cache[PathA].value.point_type = "LeakDetectRackTray"
    /\ last_metadata[PathA].point_type = "leakdetectrack"
    /\ Len(log) = 1
    /\ log[1].outcome = "ok"
    /\ Unwrap(log[1].call).kind = "insert"

\* the messages of the log that were deduplicated
DedupSkips == { k \in 1..Len(log) : log[k].outcome = "dedup" }

\* C35: a dedup-skip is recorded exactly once for each value message whose
\* value equals the cached state of its path, and for no other: not for a
\* message that makes a downstream call, nor for one dropped before the
\* state cache is consulted.
C35_DedupSkipCounted ==
    /\ metrics.dedup_skipped = Cardinality(DedupSkips)
    /\ \A k \in 1..Len(log) :
          /\ k \in DedupSkips <=> log[k].prior = Some(log[k].value)
          /\ k \in DedupSkips => ~MadeCall(log[k])

\* Faulting made a call, its repetition was deduplicated, a value message
\* with no extractable path was dropped: one dedup-skip is recorded
C35_Witness ==
    /\ Len(log) = 3
    /\ log[1].outcome = "ok" /\ log[1].value = "Faulting"
    /\ log[2].outcome = "dedup" /\ log[2].value = "Faulting"
    /\ log[3].outcome = "no_path"
    /\ metrics.dedup_skipped = 1

\* C36: FaultValue wire round trip.  Serializing Clear gives the number 0 and
\* serializing Faulting the number 1, and decoding the serialized form of a
\* FaultValue returns that FaultValue.
C36_WireRoundTrip ==
    LET r == pure_call.result
    IN  /\ Len(r) >= 2 =>
              /\ r[1] = Ok("Clear") => r[2] = [ neg |-> FALSE, halves |-> 0, float |-> FALSE ]
              /\ r[1] = Ok("Faulting") => r[2] = [ neg |-> FALSE, halves |-> 2, float |-> FALSE ]
        /\ Len(r) = 3 => r[3] = r[1]

\* Faulting, decoded from the float 1.0, was serialized as the integer 1 and
\* decoded again as Faulting
C36_Witness ==
    /\ pure_call.args = << [ neg |-> FALSE, halves |-> 2, float |-> TRUE ] >>
    /\ Len(pure_call.result) = 3
    /\ pure_call.result[2].float = FALSE
    /\ pure_call.result[3] = Ok("Faulting")

\* the value messages whose compound update returned Ok: a downstream call
\* that was committed, or a dedup-skip
UpdateOk == { k \in 1..Len(log) : log[k].outcome \in { "ok", "dedup" } }

\* the handlers whose compound update has returned Ok and that have not yet
\* recorded their message
AboutToRecord == { t \in Tasks : pc[t] = "returned" }

\* C37: the messages-processed counter counts exactly the value messages
\* whose compound update returned Ok, a committed downstream call or a
\* dedup-skip, each once, when its handler returns; a value message whose
\* downstream call failed, or that was dropped for a missing path or missing
\* metadata, is not counted, and neither is a metadata message.
C37_MessagesProcessedCounted ==
    metrics.messages_processed + Cardinality(AboutToRecord) = Cardinality(UpdateOk)

\* a value message was dropped for missing metadata, the insert of the next
\* failed and the insert of the third was committed: one message is counted
C37_Witness ==
    /\ Len(log) = 3
    /\ log[1].outcome = "no_metadata"
    /\ log[2].outcome = "err"
    /\ log[3].outcome = "ok"
    /\ metrics.messages_processed = 1
    /\ AboutToRecord = {}

\* the insert calls made, whether in flight, failed or committed
InsertCalls == { k \in 1..Len(log) : CallKind(log[k]) = "insert" }

\* C38: the alerts-detected counter is incremented once for each insert
\* attempted, before the downstream call returns and whether or not it
\* succeeds: it equals the number of insert calls made, calls in flight and
\* failed calls included, and no remove, dedup-skip or drop is counted.
C38_AlertsDetectedCounted ==
    metrics.alerts_detected = Cardinality(InsertCalls)

\* the insert of the first Faulting failed and the insert of the second is
\* in flight: two alerts are counted and no Faulting is committed yet
C38_Witness ==
    /\ Len(log) = 2
    /\ log[1].value = "Faulting" /\ log[1].outcome = "err"
    /\ log[2].value = "Faulting" /\ log[2].outcome = "pending"
    /\ metrics.alerts_detected = 2
    /\ PathA \notin DOMAIN value_state_cache

====
